---------------------------- MODULE Spec2Model ----------------------------
(***************************************************************************)
(* gobu: a traitful "go build" wrapper (src/gobu.go).                      *)
(*                                                                         *)
(* A Go string is modelled as a sequence of atoms.  An atom is a piece of  *)
(* text that holds no "=", or the one-character text "=" itself, so that   *)
(* "ldflags=-s" is <<"ldflags", "=", "-s">> and the empty string is <<>>.  *)
(* Concatenation is \o; splitting at "=" and fmt.Sprintf("%s=%s", ..) work *)
(* on the atoms.  A []string is a sequence of such strings; a nil slice    *)
(* and an empty slice are both <<>> (the code only tests flag slices       *)
(* against nil, and every append in the code adds at least one element).   *)
(***************************************************************************)
EXTENDS Naturals, Sequences, FiniteSets, TLC

VARIABLES
    pc,         \* position of main()
    opts,       \* the command line flags, set by flag.Parse()
    argv,       \* flag.Args(): the trait tokens of the command line
    args,       \* the trait tokens main() works on (flag.Args() or ["default"])
    idx,        \* index of the next token of args in the loop of tr.apply(args...)
    gb,         \* the gobu struct
    applied,    \* gobutraits.applied (the keys; every stored value is true)
    calls,      \* the trait callbacks invoked so far: <<[name, arg, marked, depth]>>
    osenv,      \* the environment of the process (os.Setenv)
    checkErr,   \* the error tr.check(args...) returned: "nil" or the message
    c,          \* the command vector main() got from gb.Getcmd()
    e,          \* the environment vector main() got from gb.Getcmd()
    stdout,     \* what main() printed for -d / -dryrun: "none" or a record
    stderr,     \* the lines written to os.Stderr
    runs,       \* the invocations of runCommand: <<[args, env, ok]>>
    pkgs,       \* the invocations of createPackage: <<[zipfile, files, entries, err]>>
    exitCode    \* "running", or the exit status of the process

vars == <<pc, opts, argv, args, idx, gb, applied, calls, osenv, checkErr, c, e,
          stdout, stderr, runs, pkgs, exitCode>>

-----------------------------------------------------------------------------
(* Bounds and input sets *)

\* the longest token list of a run
MaxArgs == 3

EQ == "="

\* a string of one atom
S(a) == <<a>>

\* the token name=value
P(name, value) == <<name, EQ>> \o value

\* runtime.GOOS and runtime.GOARCH of the build of gobu itself
runtimeGOOS == S("darwin")
runtimeGOARCH == S("amd64")

\* the outputs cmdStr("git", "describe", ...) can give ("" when git fails)
Versions == { <<>>, S("v1.2.3") }

\* time.Now().Format(time.RFC3339) at the moment the version trait runs
Times == { S("2026-01-01T00:00:00Z"), S("2026-01-01T00:00:01Z") }

\* filepath.Base(filepath.Abs(filepath.Dir(os.Args[0])))
DirName == S("tool")

-----------------------------------------------------------------------------
(* package strings *)

\* strings.Index(s, "=") != -1
Contains(s, a) == \E i \in 1..Len(s) : s[i] = a

\* the position of the first atom a of s (Len(s)+1 when there is none)
RECURSIVE FirstIndex(_, _)
FirstIndex(s, a) ==
    IF s = <<>> THEN 1
    ELSE IF Head(s) = a THEN 1
    ELSE 1 + FirstIndex(Tail(s), a)

\* strings.Join(elems, sep)
RECURSIVE Join(_, _)
Join(elems, sep) ==
    IF elems = <<>> THEN <<>>
    ELSE IF Len(elems) = 1 THEN elems[1]
    ELSE elems[1] \o sep \o Join(Tail(elems), sep)

\* strings.ReplaceAll(s, old, new) for a one-atom old
RECURSIVE ReplaceAll(_, _, _)
ReplaceAll(s, old, new) ==
    IF s = <<>> THEN <<>>
    ELSE (IF Head(s) = old THEN new ELSE <<Head(s)>>) \o ReplaceAll(Tail(s), old, new)

\* strings.Split(s, sep) for a one-atom sep
RECURSIVE Split(_, _)
Split(s, sep) ==
    LET k == FirstIndex(s, sep)
    IN  IF k > Len(s) THEN << s >>
        ELSE << SubSeq(s, 1, k - 1) >> \o Split(SubSeq(s, k + 1, Len(s)), sep)

\* fmt.Sprintf("%s=%s", a, b)
SprintfEq(a, b) == a \o <<EQ>> \o b

-----------------------------------------------------------------------------
(* type gobu and its methods *)

\* &gobu{version: v}
NewGobu(v) ==
    [ ldflags |-> <<>>, buildflags |-> <<>>, gcflags |-> <<>>, environ |-> <<>>,
      givenOs |-> <<>>, version |-> v, binary |-> <<>>, subcmd |-> <<>>,
      name |-> <<>>, dopackage |-> FALSE ]

\* AddLdFlags that puts the new flags first
AddLdFlagsInFront(g, flags) == [g EXCEPT !.ldflags = flags \o @]

AddLdFlags(g, flags) == [g EXCEPT !.ldflags = @ \o flags]

ResetLdFlags(g) == [g EXCEPT !.ldflags = <<>>]

AddVar(g, name, value) == AddLdFlags(g, << S("-X"), SprintfEq(name, value) >>)

AddBuildFlags(g, flags) == [g EXCEPT !.buildflags = @ \o flags]

ResetBuildFlags(g) == [g EXCEPT !.buildflags = <<>>]

AddCompileFlags(g, flags) == [g EXCEPT !.gcflags = @ \o flags]

ResetCompileFlags(g) == [g EXCEPT !.gcflags = <<>>]

\* os.Setenv fails (EINVAL) on an empty key and on a key that holds "="
SetenvFails(key, value) == key = <<>> \/ Contains(key, EQ)

\* SetEnv without the call of os.Setenv
SetEnvUnmirrored(st, key, value) ==
    LET g1 == [st.gb EXCEPT !.environ = Append(@, SprintfEq(key, value))]
    IN  [st EXCEPT !.gb = IF key = S("GOOS") THEN [g1 EXCEPT !.givenOs = value]
                          ELSE g1]

\* SetEnv that forgets to record the value of GOOS in givenOs
SetEnvKeepsGivenOs(st, key, value) ==
    [st EXCEPT !.gb.environ = Append(@, SprintfEq(key, value)),
               !.osenv = [k \in (DOMAIN @) \cup {key} |->
                             IF k = key THEN value ELSE @[k]]]

\* The state the trait closures work on: the gobu struct, the applied map, the
\* process environment, os.Stderr and whether a panic is unwinding.
SetEnv(st, key, value) ==
    LET g1 == [st.gb EXCEPT !.environ = Append(@, SprintfEq(key, value))]
        g2 == IF key = S("GOOS") THEN [g1 EXCEPT !.givenOs = value] ELSE g1
    IN  IF SetenvFails(key, value)
        THEN [st EXCEPT !.gb = g2,
                        !.stderr = Append(@, [msg |-> "Failed to set environment variable",
                                              what |-> SprintfEq(key, value)])]
        ELSE [st EXCEPT !.gb = g2,
                        !.osenv = [k \in (DOMAIN @) \cup {key} |->
                                      IF k = key THEN value ELSE @[k]]]

TargetOs(g) == IF g.givenOs # <<>> THEN g.givenOs ELSE runtimeGOOS

\* Getcmd that renders the fields as they were before the defaults were stored
GetcmdBeforeDefaults(g0) ==
    LET g1 == IF g0.binary = <<>> THEN [g0 EXCEPT !.binary = S("go")] ELSE g0
        g2 == IF g1.subcmd = <<>> THEN [g1 EXCEPT !.subcmd = S("build")] ELSE g1
        c1 == << g0.binary, g0.subcmd >>
        c2 == IF g2.buildflags # <<>> THEN c1 \o g2.buildflags ELSE c1
        c3 == IF g2.ldflags # <<>>
              THEN c2 \o << S("-ldflags"), Join(g2.ldflags, S(" ")) >> ELSE c2
        c4 == IF g2.gcflags # <<>>
              THEN c3 \o << S("-gcflags"), Join(g2.gcflags, S(" ")) >> ELSE c3
    IN  [ command |-> c4, env |-> g2.environ, g |-> g2 ]

\* Getcmd that puts the two flag arguments before the build flags
GetcmdFlagsFirst(g0) ==
    LET g1 == IF g0.binary = <<>> THEN [g0 EXCEPT !.binary = S("go")] ELSE g0
        g2 == IF g1.subcmd = <<>> THEN [g1 EXCEPT !.subcmd = S("build")] ELSE g1
        c1 == << g2.binary, g2.subcmd >>
        c2 == IF g2.ldflags # <<>>
              THEN c1 \o << S("-ldflags"), Join(g2.ldflags, S(" ")) >> ELSE c1
        c3 == IF g2.gcflags # <<>>
              THEN c2 \o << S("-gcflags"), Join(g2.gcflags, S(" ")) >> ELSE c2
        c4 == IF g2.buildflags # <<>> THEN c3 \o g2.buildflags ELSE c3
    IN  [ command |-> c4, env |-> g2.environ, g |-> g2 ]

\* Getcmd returns the command and the environment and stores the defaults of
\* binary and subcmd in the struct: g is the struct after the call.
Getcmd(g0) ==
    LET g1 == IF g0.binary = <<>> THEN [g0 EXCEPT !.binary = S("go")] ELSE g0
        g2 == IF g1.subcmd = <<>> THEN [g1 EXCEPT !.subcmd = S("build")] ELSE g1
        c1 == << g2.binary, g2.subcmd >>
        c2 == IF g2.buildflags # <<>> THEN c1 \o g2.buildflags ELSE c1
        c3 == IF g2.ldflags # <<>>
              THEN c2 \o << S("-ldflags"), Join(g2.ldflags, S(" ")) >> ELSE c2
        c4 == IF g2.gcflags # <<>>
              THEN c3 \o << S("-gcflags"), Join(g2.gcflags, S(" ")) >> ELSE c3
    IN  [ command |-> c4, env |-> g2.environ, g |-> g2 ]

\* getTransformedBinaryName that ignores the name template
getTransformedBinaryNameDefault(g, name) == name

getTransformedBinaryName(g, name) ==
    IF g.name # <<>> THEN ReplaceAll(g.name, "%n", name) ELSE name

\* absErr: filepath.Abs failed (the working directory is gone)
getBinaryName(g, absErr) ==
    IF absErr THEN [ name |-> <<>>, err |-> "abs" ]
    ELSE [ name |-> getTransformedBinaryName(g, DirName), err |-> "nil" ]

-----------------------------------------------------------------------------
(* traits: type descmap, newgobutraits, check and apply *)

\* descmap.add: a descriptor with the zero-argument callback only
add(d, name) == (name :> [trait |-> "func", paramTrait |-> "nil"]) @@ d

\* descmap.addFlag: a descriptor with the one-argument callback only
addFlag(d, name) == (name :> [trait |-> "nil", paramTrait |-> "func"]) @@ d

SimpleNames ==
    << "nocgo", "static", "shrink", "race", "rebuild", "trimpath", "linux",
       "windows", "windowsgui", "verbose", "debug", "install", "version",
       "package", "release", "default" >>

FlagNames == << "go", "ldflags", "buildflags", "gcflags", "name" >>

RECURSIVE addAll(_, _)
addAll(d, names) ==
    IF names = <<>> THEN d ELSE addAll(add(d, S(Head(names))), Tail(names))

RECURSIVE addFlagAll(_, _)
addFlagAll(d, names) ==
    IF names = <<>> THEN d
    ELSE addFlagAll(addFlag(d, <<Head(names), EQ>>), Tail(names))

\* gobutraits.traits as newgobutraits fills it (the callbacks are trait and
\* paramTrait below, chosen by name)
traits == addFlagAll(addAll(<<>>, SimpleNames), FlagNames)

isFlagTrait(name) == Contains(name, EQ)

\* strings.SplitAfter(name, "=")[0]
parseTrait(name) ==
    LET k == FirstIndex(name, EQ)
    IN  IF k > Len(name) THEN name ELSE SubSeq(name, 1, k)

\* the split at every "=" instead of the first one
SplitEvery(name) == Split(name, EQ)

\* strings.SplitN(name, "=", 2): one part when name holds no "="
SplitN2(name) ==
    LET k == FirstIndex(name, EQ)
    IN  IF k > Len(name) THEN << name >>
        ELSE << SubSeq(name, 1, k - 1), SubSeq(name, k + 1, Len(name)) >>

\* check that stops at the first base name that is not registered
checkFirstOnly(names) ==
    LET bad == { j \in 1..Len(names) : parseTrait(names[j]) \notin DOMAIN traits }
    IN  IF bad = {} THEN {}
        ELSE { parseTrait(names[CHOOSE j \in bad : \A k \in bad : j <= k]) }

\* the map inv of check: the base names that are not registered
check(names) ==
    { parseTrait(names[i]) : i \in { j \in 1..Len(names) :
                                       parseTrait(names[j]) \notin DOMAIN traits } }

\* the orders in which "for k := range inv" can visit the keys
Orders(set) ==
    { q \in [1..Cardinality(set) -> set] : \A x \in set : \E i \in DOMAIN q : q[i] = x }

\* the error check returns for the keys visited in order q (nil for none):
\* invalid is the slice the message is joined from
checkError(q) ==
    IF q = <<>> THEN [ nil |-> TRUE, invalid |-> <<>>, text |-> <<>> ]
    ELSE [ nil |-> FALSE, invalid |-> q,
           text |-> S(IF Len(q) = 1 THEN "Invalid trait: " ELSE "Invalid traits: ")
                    \o Join(q, S(", ")) ]

\* The callbacks take the state st = [gb, applied, osenv, stderr, calls,
\* depth, panicked] and the oracle o = [now, absErr]: the clock and whether
\* filepath.Abs fails.  calls is the log of the callbacks invoked so far and
\* depth the number of callbacks on the call stack.
RECURSIVE apply(_, _, _)

traitNocgo(st, o) == SetEnv(st, S("CGO_ENABLED"), S("0"))

traitStatic(st, o) ==
    [st EXCEPT !.gb = AddLdFlags(@, << S("-extldflags"), S("\"-static\"") >>)]

traitShrink(st, o) == [st EXCEPT !.gb = AddLdFlags(@, << S("-s"), S("-w") >>)]

traitRace(st, o) == [st EXCEPT !.gb = AddBuildFlags(@, << S("-race") >>)]

traitRebuild(st, o) == [st EXCEPT !.gb = AddBuildFlags(@, << S("-a") >>)]

traitTrimpath(st, o) == [st EXCEPT !.gb = AddBuildFlags(@, << S("-trimpath") >>)]

traitLinux(st, o) == SetEnv(st, S("GOOS"), S("linux"))

traitWindows(st, o) == SetEnv(st, S("GOOS"), S("windows"))

\* windowsgui that sets GOOS itself instead of applying the windows trait
traitWindowsguiSetsEnv(st, o) ==
    [SetEnv(st, S("GOOS"), S("windows")) EXCEPT
        !.gb = AddLdFlags(@, << S("-H"), S("windowsgui") >>)]

traitWindowsgui(st, o) ==
    LET s1 == apply(st, << S("windows") >>, o)
    IN  IF s1.panicked THEN s1
        ELSE [s1 EXCEPT !.gb = AddLdFlags(@, << S("-H"), S("windowsgui") >>)]

traitVerbose(st, o) == [st EXCEPT !.gb = AddBuildFlags(@, << S("-v") >>)]

traitDebug(st, o) == [st EXCEPT !.gb = AddBuildFlags(@, << S("-x") >>)]

traitInstall(st, o) == [st EXCEPT !.gb.subcmd = S("install")]

traitVersion(st, o) ==
    [st EXCEPT !.gb =
        AddVar(AddVar(AddVar(AddVar(@,
            S("main.timestamp"), o.now),
            S("main.version"), st.gb.version),
            S("main.buildGOOS"), runtimeGOOS),
            S("main.buildGOARCH"), runtimeGOARCH)]

traitPackage(st, o) == [st EXCEPT !.gb.dopackage = TRUE]

\* release that leaves out the static trait
traitReleaseWithoutStatic(st, o) ==
    apply(st, << S("shrink"), S("version"), S("rebuild"), S("trimpath") >>, o)

\* release as it was before trimpath was added to it
traitReleaseWithoutTrimpath(st, o) ==
    apply(st, << S("shrink"), S("version"), S("static"), S("rebuild") >>, o)

traitRelease(st, o) ==
    apply(st, << S("shrink"), S("version"), S("static"), S("rebuild"),
                 S("trimpath") >>, o)

\* default that applies no trait
traitDefaultEmpty(st, o) == st

traitDefault(st, o) == apply(st, << S("version") >>, o)

paramGo(st, s, o) == [st EXCEPT !.gb.binary = s]

\* ldflags= that appends without the reset
paramLdflagsAppends(st, s, o) == [st EXCEPT !.gb = AddLdFlags(@, << s >>)]

paramLdflags(st, s, o) == [st EXCEPT !.gb = AddLdFlags(ResetLdFlags(@), << s >>)]

paramBuildflags(st, s, o) ==
    [st EXCEPT !.gb = AddBuildFlags(ResetBuildFlags(@), << s >>)]

paramGcflags(st, s, o) ==
    [st EXCEPT !.gb = AddCompileFlags(ResetCompileFlags(@), << s >>)]

paramName(st, s, o) ==
    LET g1 == [st.gb EXCEPT !.name = s]
        r  == getBinaryName(g1, o.absErr)
    IN  IF r.err # "nil" THEN [st EXCEPT !.gb = g1, !.panicked = TRUE]
        ELSE [st EXCEPT !.gb = AddBuildFlags(g1, << S("-o"), r.name >>)]

\* t.trait() for the descriptor registered under n
trait(st, n, o) ==
    CASE n = S("nocgo")      -> traitNocgo(st, o)
      [] n = S("static")     -> traitStatic(st, o)
      [] n = S("shrink")     -> traitShrink(st, o)
      [] n = S("race")       -> traitRace(st, o)
      [] n = S("rebuild")    -> traitRebuild(st, o)
      [] n = S("trimpath")   -> traitTrimpath(st, o)
      [] n = S("linux")      -> traitLinux(st, o)
      [] n = S("windows")    -> traitWindows(st, o)
      [] n = S("windowsgui") -> traitWindowsgui(st, o)
      [] n = S("verbose")    -> traitVerbose(st, o)
      [] n = S("debug")      -> traitDebug(st, o)
      [] n = S("install")    -> traitInstall(st, o)
      [] n = S("version")    -> traitVersion(st, o)
      [] n = S("package")    -> traitPackage(st, o)
      [] n = S("release")    -> traitRelease(st, o)
      [] n = S("default")    -> traitDefault(st, o)

\* t.paramTrait(s) for the descriptor registered under n
paramTrait(st, n, s, o) ==
    CASE n = <<"go", EQ>>         -> paramGo(st, s, o)
      [] n = <<"ldflags", EQ>>    -> paramLdflags(st, s, o)
      [] n = <<"buildflags", EQ>> -> paramBuildflags(st, s, o)
      [] n = <<"gcflags", EQ>>    -> paramGcflags(st, s, o)
      [] n = <<"name", EQ>>       -> paramName(st, s, o)

\* the state in which the callback of n starts: the invocation is logged with
\* its argument, the applied map as it is at that moment (marked) and the
\* number of callbacks on the call stack, this one included (depth)
called(st, n, s) ==
    [st EXCEPT !.calls = Append(@, [ name |-> n, arg |-> s, marked |-> st.applied,
                                     depth |-> st.depth + 1 ]),
               !.depth = @ + 1]

\* the iteration that does not store the base name in the applied map
applyOneUnmarked(st, name, o) ==
    LET n == parseTrait(name)
    IN  IF n \in st.applied THEN st
        ELSE IF n \in DOMAIN traits
        THEN [ (IF isFlagTrait(n)
                THEN paramTrait(called(st, n, << SplitN2(name)[2] >>), n,
                                SplitN2(name)[2], o)
                ELSE trait(called(st, n, <<>>), n, o))
               EXCEPT !.depth = st.depth ]
        ELSE st

\* the iteration without the test of the applied map
applyOneAgain(st, name, o) ==
    LET n == parseTrait(name)
    IN  IF n \in DOMAIN traits
        THEN LET r == IF isFlagTrait(n)
                      THEN paramTrait(called(st, n, << SplitN2(name)[2] >>), n,
                                      SplitN2(name)[2], o)
                      ELSE trait(called(st, n, <<>>), n, o)
             IN  IF r.panicked THEN r
                 ELSE [r EXCEPT !.applied = @ \cup {n}, !.depth = st.depth]
        ELSE st

\* one iteration of the loop of apply, for the token name
applyOne(st, name, o) ==
    LET n == parseTrait(name)
    IN  IF n \in st.applied THEN st
        ELSE IF n \in DOMAIN traits
        THEN LET t == traits[n]
                 \* calling a nil callback panics
                 r == IF isFlagTrait(n)
                      THEN IF t.paramTrait = "nil" THEN [st EXCEPT !.panicked = TRUE]
                           ELSE paramTrait(called(st, n, << SplitN2(name)[2] >>), n,
                                           SplitN2(name)[2], o)
                      ELSE IF t.trait = "nil" THEN [st EXCEPT !.panicked = TRUE]
                           ELSE trait(called(st, n, <<>>), n, o)
             IN  IF r.panicked THEN r
                 ELSE [r EXCEPT !.applied = @ \cup {n}, !.depth = st.depth]
        ELSE st

\* gobutraits.apply(names...)
apply(st, names, o) ==
    IF names = <<>> \/ st.panicked THEN st
    ELSE apply(applyOne(st, Head(names), o), Tail(names), o)

\* gobutraits.appliedTraits: the keys stored with the value true, as a set
\* (the order of the returned slice is the map's iteration order)
appliedTraits(ap) == ap

-----------------------------------------------------------------------------
(* createPackage, as far as the names it builds *)

\* whether a file name matches a pattern of filepath.Glob: a pattern is a
\* name, or a prefix followed by the atom "*"
Matches(pattern, file) ==
    IF pattern # <<>> /\ pattern[Len(pattern)] = "*"
    THEN /\ Len(file) >= Len(pattern) - 1
         /\ SubSeq(file, 1, Len(pattern) - 1) = SubSeq(pattern, 1, Len(pattern) - 1)
    ELSE file = pattern

\* filepath.Glob(pattern) in a directory that holds the files of the
\* sequence dir (in the order Glob returns them)
RECURSIVE Glob(_, _)
Glob(pattern, dir) ==
    IF dir = <<>> THEN <<>>
    ELSE (IF Matches(pattern, Head(dir)) THEN << Head(dir) >> ELSE <<>>)
         \o Glob(pattern, Tail(dir))

\* the loop of createPackage over the patterns: the files that are bundled
RECURSIVE properfiles(_, _)
properfiles(files, dir) ==
    IF files = <<>> THEN <<>>
    ELSE Glob(Head(files), dir) \o properfiles(Tail(files), dir)

\* o = [absErr, ioErr, dir]: filepath.Abs fails; creating or writing the zip
\* fails; the files of the working directory.  entries are the names
\* w.Create is called with.
createPackage(g, env, o) ==
    LET filestr  == IF S("GOBU_EXTRA_DIST") \in DOMAIN env
                    THEN env[S("GOBU_EXTRA_DIST")] ELSE <<>>
        files    == IF filestr # <<>> THEN Split(filestr, " ")
                    ELSE << <<"README", "*">>, S("LICENSE") >>
        r        == getBinaryName(g, o.absErr)
        progname == IF g.version # <<>>
                    THEN r.name \o S("-") \o g.version \o S("-") \o TargetOs(g)
                         \o S("-") \o runtimeGOARCH
                    ELSE r.name
        binary   == IF TargetOs(g) = S("windows") THEN r.name \o S(".exe") ELSE r.name
        proper   == properfiles(Append(files, binary), o.dir)
    IN  IF r.err # "nil"
        THEN [ zipfile |-> <<>>, files |-> <<>>, entries |-> <<>>, err |-> r.err ]
        ELSE IF o.ioErr
        THEN [ zipfile |-> progname \o S(".zip"), files |-> Append(files, binary),
               entries |-> <<>>, err |-> "io" ]
        ELSE [ zipfile |-> progname \o S(".zip"), files |-> Append(files, binary),
               entries |-> [ i \in DOMAIN proper |-> progname \o S("/") \o proper[i] ],
               err |-> "nil" ]

-----------------------------------------------------------------------------
(* main *)

\* the trait tokens of the command lines of Spec: the environment traits,
\* the tool binary, composites, the package trait and unknown names
Tokens ==
    { S("nocgo"), S("linux"), S("windows"), S("windowsgui"),
      P("go", S("go1.21")), P("go", S("gotip")),
      S("release"), S("version"), S("install"), S("package"),
      S("foo") }

\* the trait tokens of the command lines of SpecFlags: the flag traits, the
\* explicit overrides and the composites
FlagTokens ==
    { S("shrink"), S("version"), S("trimpath"),
      S("release"), S("default"), S("package"),
      P("ldflags", S("-s")), P("ldflags", S("-w")),
      P("buildflags", S("-v")), P("gcflags", S("-N")) }

\* the trait tokens of the command lines of SpecCheck: unknown names, a flag
\* name without its "=", a simple name with a value, and registered names
CheckTokens ==
    { S("foo"), S("bar"), S("ldflags"), P("nocgo", S("1")), P("foo", S("x")),
      S("release"), S("package"), P("ldflags", S("-s")) }

\* the trait tokens of the command lines of SpecCmd: what the command and the
\* environment are rendered from, with an override that has an empty value
CmdTokens ==
    { S("shrink"), S("static"), S("nocgo"), S("windowsgui"),
      S("rebuild"), S("install"), S("package"), P("go", S("gotip")),
      P("ldflags", <<>>), P("gcflags", S("-N")) }

\* the trait tokens of the command lines of SpecPackage: the package trait,
\* the target OS, the name template with and without %n, and a build flags
\* override
PackageTokens ==
    { S("package"), S("windows"), S("linux"), S("version"),
      P("name", <<"my-", "%n">>), P("name", S("app")), P("buildflags", S("-v")) }

\* the values of GOBU_EXTRA_DIST in the environment gobu is started with
\* (<<>>: not set)
ExtraDists == { <<>>, << "docs", "/", "*", " ", "NOTICE" >> }

\* the trait tokens of the command lines of SpecAgree: values that hold "="
\* or are empty, a flag name without "=", a simple name with a value, the
\* token "=", and registered simple and composite names
AgreeTokens ==
    { P("ldflags", << "-X main.v", EQ, "1" >>), P("go", <<>>), P("gcflags", S("-N")),
      S("ldflags"), P("nocgo", S("1")), << EQ >>, S("nocgo"), S("release"),
      S("package") }

\* the trait tokens of the command lines of SpecComposite: the composites,
\* constituents of theirs, and an override
CompositeTokens ==
    { S("release"), S("default"), S("version"), S("shrink"), S("windowsgui"),
      S("package"), P("ldflags", S("-s")) }

\* the token lists of at most MaxArgs tokens
ArgLists(tokens) == UNION { [1..n -> tokens] : n \in 0..MaxArgs }

\* the values of the flags -v, -l, -d, -dryrun and -licenses; -d and -dryrun
\* are tried on the runs that get to the build, and one at a time (-dryrun
\* prints what -d prints)
OptSets ==
    { o \in [ v : BOOLEAN, l : BOOLEAN, d : BOOLEAN, dryrun : BOOLEAN, licenses : BOOLEAN ] :
        /\ (o.v \/ o.l \/ o.licenses) => (~o.d /\ ~o.dryrun)
        /\ ~(o.d /\ o.dryrun) }

\* the state the trait callbacks work on
St == [ gb |-> gb, applied |-> applied, osenv |-> osenv, stderr |-> stderr,
        calls |-> calls, depth |-> 0, panicked |-> FALSE ]

\* fault that returns whatever the error
faultReturns(isNil) == FALSE

\* fault(err, message): whether it ends the process with status 1
fault(isNil) == ~isNil

\* the line fault writes before os.Exit(1)
faultLine(message, err) == [ msg |-> message, what |-> err ]

\* the process at its start, after flag.Parse(), for a command line over tokens
InitOver(tokens) ==
    /\ pc = "start"
    /\ opts \in OptSets
    /\ argv \in ArgLists(tokens)
    /\ args = <<>>
    /\ idx = 1
    /\ gb = NewGobu(<<>>)
    /\ applied = {}
    /\ calls = <<>>
    /\ osenv = <<>>
    /\ checkErr = checkError(<<>>)
    /\ c = <<>>
    /\ e = <<>>
    /\ stdout = <<>>
    /\ stderr = <<>>
    /\ runs = <<>>
    /\ pkgs = <<>>
    /\ exitCode = "running"

Init == InitOver(Tokens)

InitFlags == InitOver(FlagTokens)

InitCheck == InitOver(CheckTokens)

InitCmd == InitOver(CmdTokens)

InitAgree == InitOver(AgreeTokens)

InitComposite == InitOver(CompositeTokens)

\* the start of the process with GOBU_EXTRA_DIST set or not
InitPackage ==
    /\ pc = "start"
    /\ opts \in OptSets
    /\ argv \in ArgLists(PackageTokens)
    /\ args = <<>>
    /\ idx = 1
    /\ gb = NewGobu(<<>>)
    /\ applied = {}
    /\ calls = <<>>
    /\ \E x \in ExtraDists :
          osenv = IF x = <<>> THEN <<>> ELSE (S("GOBU_EXTRA_DIST") :> x)
    /\ checkErr = checkError(<<>>)
    /\ c = <<>>
    /\ e = <<>>
    /\ stdout = <<>>
    /\ stderr = <<>>
    /\ runs = <<>>
    /\ pkgs = <<>>
    /\ exitCode = "running"

\* main, lines 434-437: -v prints the version and exits
MainVersion ==
    /\ pc = "start"
    /\ opts.v
    /\ stdout' = << [ version |-> TRUE ] >>
    /\ pc' = "exit"
    /\ exitCode' = "0"
    /\ UNCHANGED <<opts, argv, args, idx, gb, applied, calls, osenv, checkErr, c, e, stderr, runs, pkgs>>

\* main, lines 439-446: -licenses prints the licenses, or faults
MainLicenses ==
    /\ pc = "start"
    /\ ~opts.v
    /\ opts.licenses
    /\ \E err \in { "nil", "licenses" } :
          IF ~fault(err = "nil")
          THEN /\ stdout' = << [ licenses |-> TRUE ] >>
               /\ exitCode' = "0"
               /\ UNCHANGED stderr
          ELSE /\ stderr' = Append(stderr, faultLine("Getting licenses failed", S(err)))
               /\ exitCode' = "1"
               /\ UNCHANGED stdout
    /\ pc' = "exit"
    /\ UNCHANGED <<opts, argv, args, idx, gb, applied, calls, osenv, checkErr, c, e, runs, pkgs>>

\* main, lines 448-452: the gobu struct with the version and the registry
MainConstruct ==
    /\ pc = "start"
    /\ ~opts.v
    /\ ~opts.licenses
    /\ \E v \in Versions : gb' = NewGobu(v)
    /\ applied' = {}
    /\ pc' = "constructed"
    /\ UNCHANGED <<opts, argv, args, idx, calls, osenv, checkErr, c, e, stdout, stderr, runs, pkgs, exitCode>>

\* main, lines 454-479: -l lists the traits and exits
MainListTraits ==
    /\ pc = "constructed"
    /\ opts.l
    /\ stdout' = << [ traits |-> { n \in DOMAIN traits : ~isFlagTrait(n) },
                      parameterized |-> { n \in DOMAIN traits : isFlagTrait(n) } ] >>
    /\ pc' = "exit"
    /\ exitCode' = "0"
    /\ UNCHANGED <<opts, argv, args, idx, gb, applied, calls, osenv, checkErr, c, e, stderr, runs, pkgs>>

\* main, lines 481-487: the arguments, the default, check and fault
MainCheck ==
    /\ pc = "constructed"
    /\ ~opts.l
    /\ \E a \in { IF Len(argv) = 0 THEN << S("default") >> ELSE argv } :
              /\ args' = a
              /\ \E q \in Orders(check(a)) :
                    /\ checkErr' = checkError(q)
                    /\ IF ~fault(checkError(q).nil)
                       THEN /\ pc' = "apply"
                            /\ UNCHANGED <<stderr, exitCode>>
                       ELSE /\ stderr' = Append(stderr,
                                   faultLine("Parsing command line failed", checkError(q).text))
                            /\ pc' = "exit"
                            /\ exitCode' = "1"
    /\ idx' = 1
    /\ UNCHANGED <<opts, argv, gb, applied, calls, osenv, c, e, stdout, runs, pkgs>>

\* the outcomes of filepath.Abs that matter to a token: only the callback of
\* name= calls it
AbsOutcomes(token) ==
    IF parseTrait(token) = <<"name", EQ>> THEN BOOLEAN ELSE { FALSE }

\* main, line 489: one iteration of the loop of tr.apply(args...); a panic
\* in a callback ends the process with status 2
ApplyStep ==
    /\ pc = "apply"
    /\ idx <= Len(args)
    /\ \E now \in Times, absErr \in AbsOutcomes(args[idx]) :
          \E r \in { applyOne(St, args[idx], [ now |-> now, absErr |-> absErr ]) } :
              /\ gb' = r.gb
              /\ applied' = r.applied
              /\ calls' = r.calls
              /\ osenv' = r.osenv
              /\ stderr' = IF r.panicked
                           THEN Append(r.stderr, [ msg |-> "panic", what |-> args[idx] ])
                           ELSE r.stderr
              /\ pc' = IF r.panicked THEN "exit" ELSE "apply"
              /\ exitCode' = IF r.panicked THEN "2" ELSE exitCode
    /\ idx' = idx + 1
    /\ UNCHANGED <<opts, argv, args, checkErr, c, e, stdout, runs, pkgs>>

\* main, lines 490-500: Getcmd, the -d / -dryrun output, the -dryrun exit
MainGetcmd ==
    /\ pc = "apply"
    /\ idx > Len(args)
    /\ \E r \in { Getcmd(gb) } :
           /\ gb' = r.g
           /\ c' = r.command
           /\ e' = r.env
           /\ stdout' = IF opts.d \/ opts.dryrun
                        THEN << [ traits |-> appliedTraits(applied),
                                  command |-> Join(r.command, S(" ")),
                                  environment |-> Join(r.env, S("\n")) ] >>
                        ELSE stdout
    /\ pc' = IF opts.dryrun THEN "exit" ELSE "run"
    /\ exitCode' = IF opts.dryrun THEN "0" ELSE exitCode
    /\ UNCHANGED <<opts, argv, args, idx, applied, calls, osenv, checkErr, stderr, runs, pkgs>>

\* runCommand(args, env): exec.Command without cmd.Env, so the child gets the
\* environment of the process; ok is what cmd.Run() reports
runCommand(cmd, env, procenv, ok) ==
    [ args |-> cmd, env |-> procenv, ok |-> ok ]

\* main that goes on to the package after a failed build
MainRunIgnoresFailure ==
    /\ pc = "run"
    /\ \E ok \in BOOLEAN : runs' = Append(runs, runCommand(c, e, osenv, ok))
    /\ pc' = "ran"
    /\ UNCHANGED <<opts, argv, args, idx, gb, applied, calls, osenv, checkErr, c, e,
                   stdout, stderr, pkgs, exitCode>>

\* main, lines 502-503: the build tool runs; a failure faults
MainRun ==
    /\ pc = "run"
    /\ \E ok \in BOOLEAN :
          /\ runs' = Append(runs, runCommand(c, e, osenv, ok))
          /\ IF ~fault(ok)
             THEN /\ pc' = "ran"
                  /\ UNCHANGED <<stderr, exitCode>>
             ELSE /\ stderr' = Append(stderr, faultLine("Build failed", S("exit status")))
                  /\ pc' = "exit"
                  /\ exitCode' = "1"
    /\ UNCHANGED <<opts, argv, args, idx, gb, applied, calls, osenv, checkErr, c, e, stdout, pkgs>>

\* the file the build tool has written for the command cmd: the one the
\* last -o of the command names, else the default name, to which the tool
\* adds the suffix .exe for windows
Built(cmd, g) ==
    LET os == { i \in 1..(Len(cmd) - 1) : cmd[i] = S("-o") }
    IN  IF os # {} THEN cmd[(CHOOSE i \in os : \A j \in os : j <= i) + 1]
        ELSE IF TargetOs(g) = S("windows") THEN DirName \o S(".exe") ELSE DirName

\* the working directories createPackage can find: empty but for the built
\* file, or with a README, a licence and documentation
Dirs(cmd, g) ==
    { << Built(cmd, g) >>,
      << <<"README", ".md">>, S("LICENSE"), <<"docs", "/", "a">>, Built(cmd, g) >> }

\* main, lines 505-510: the package is created when asked for; then exit
MainPackage ==
    /\ pc = "ran"
    /\ gb.dopackage
    /\ \E absErr \in BOOLEAN, ioErr \in BOOLEAN, dir \in Dirs(c, gb) :
          \E r \in { createPackage(gb, osenv, [ absErr |-> absErr, ioErr |-> ioErr,
                                                 dir |-> dir ]) } :
              /\ pkgs' = Append(pkgs, r)
              /\ IF ~fault(r.err = "nil")
                 THEN /\ exitCode' = "0"
                      /\ UNCHANGED stderr
                 ELSE /\ stderr' = Append(stderr,
                              faultLine("Creating package failed", S(r.err)))
                      /\ exitCode' = "1"
    /\ pc' = "exit"
    /\ UNCHANGED <<opts, argv, args, idx, gb, applied, calls, osenv, checkErr, c, e, stdout, runs>>

\* main, lines 505 and 510: no package asked for
MainExit ==
    /\ pc = "ran"
    /\ ~gb.dopackage
    /\ pc' = "exit"
    /\ exitCode' = "0"
    /\ UNCHANGED <<opts, argv, args, idx, gb, applied, calls, osenv, checkErr, c, e, stdout, stderr, runs, pkgs>>

Next ==
    \/ MainVersion
    \/ MainLicenses
    \/ MainConstruct
    \/ MainListTraits
    \/ MainCheck
    \/ ApplyStep
    \/ MainGetcmd
    \/ MainRun
    \/ MainPackage
    \/ MainExit

Spec == Init /\ [][Next]_vars

SpecFlags == InitFlags /\ [][Next]_vars

SpecCheck == InitCheck /\ [][Next]_vars

SpecCmd == InitCmd /\ [][Next]_vars

SpecPackage == InitPackage /\ [][Next]_vars

SpecAgree == InitAgree /\ [][Next]_vars

SpecComposite == InitComposite /\ [][Next]_vars

-----------------------------------------------------------------------------
(* Definitions the properties share *)

\* tr.apply(args...) has returned and gb.Getcmd() was not called yet
Applied == pc = "apply" /\ idx > Len(args)

\* the state of the callbacks right after main built gb and tr
Fresh(v) ==
    [ gb |-> NewGobu(v), applied |-> {}, osenv |-> <<>>, stderr |-> <<>>,
      calls |-> <<>>, depth |-> 0, panicked |-> FALSE ]

\* the oracles of a run in which filepath.Abs works
Oracles == { [ now |-> t, absErr |-> FALSE ] : t \in Times }

\* the state a fresh registry is in after apply(names...)
Run(names, o) == apply(Fresh(gb.version), names, o)

\* the base names a token with base name n marks as applied
PulledIn(n) ==
    CASE n = S("release") ->
            { S("release"), S("shrink"), S("version"), S("static"), S("rebuild"),
              S("trimpath") }
      [] n = S("default") -> { S("default"), S("version") }
      [] n = S("windowsgui") -> { S("windowsgui"), S("windows") }
      [] OTHER -> { n }

\* the list without the tokens whose base name an earlier token of the list
\* has already applied (seen: the base names applied before the list)
RECURSIVE Firsts(_, _)
Firsts(list, seen) ==
    IF list = <<>> THEN <<>>
    ELSE IF parseTrait(Head(list)) \in seen THEN Firsts(Tail(list), seen)
    ELSE << Head(list) >>
         \o Firsts(Tail(list), seen \cup PulledIn(parseTrait(Head(list))))

-----------------------------------------------------------------------------
(* C1 *)

-----------------------------------------------------------------------------
(* C2 *)

\* the value of the last entry of the key in an environment vector, dflt
\* when the vector has none
RECURSIVE LastEnv(_, _, _)
LastEnv(env, key, dflt) ==
    IF env = <<>> THEN dflt
    ELSE LET entry == env[Len(env)]
             k     == FirstIndex(entry, EQ)
         IN  IF k <= Len(entry) /\ SubSeq(entry, 1, k - 1) = key
             THEN SubSeq(entry, k + 1, Len(entry))
             ELSE LastEnv(SubSeq(env, 1, Len(env) - 1), key, dflt)

\* C2: TargetOs() is the value of the last GOOS entry of the environment
\* vector, and the host OS when there is none; linux, windows gives windows
\* and windows, linux gives linux.
C2_TargetOsIsLastGOOS ==
    /\ TargetOs(gb) = LastEnv(gb.environ, S("GOOS"), runtimeGOOS)
    /\ (Applied /\ args = << S("linux"), S("windows") >>) => TargetOs(gb) = S("windows")
    /\ (Applied /\ args = << S("windows"), S("linux") >>) => TargetOs(gb) = S("linux")

\* C2 witness: linux, windows was applied and left two GOOS entries
C2_Witness ==
    /\ Applied
    /\ args = << S("linux"), S("windows") >>
    /\ gb.environ = << SprintfEq(S("GOOS"), S("linux")), SprintfEq(S("GOOS"), S("windows")) >>
    /\ TargetOs(gb) = S("windows")

-----------------------------------------------------------------------------
(* C3 *)

\* the OS a token selects (<<>> for a token that selects none)
OsOf(token) ==
    CASE token = S("linux") -> S("linux")
      [] token \in { S("windows"), S("windowsgui") } -> S("windows")
      [] OTHER -> <<>>

OsIndexes == { i \in DOMAIN args : OsOf(args[i]) # <<>> }

GoIndexes == { i \in DOMAIN args : parseTrait(args[i]) = <<"go", EQ>> }

Max(set) == CHOOSE x \in set : \A y \in set : y <= x

Min(set) == CHOOSE x \in set : \A y \in set : x <= y

\* the first token of the list that selects the same OS as token i
FirstOfOs(i) == Min({ j \in OsIndexes : OsOf(args[j]) = OsOf(args[i]) })

-----------------------------------------------------------------------------
(* C4 *)

\* the traits the release trait names
ReleaseTraits ==
    << S("shrink"), S("version"), S("static"), S("rebuild"), S("trimpath") >>

-----------------------------------------------------------------------------
(* C5 *)

\* the three flag sequences; the override trait of sequence f is named f=
OverrideFields == { "ldflags", "buildflags", "gcflags" }

OverrideIndexes(fld) == { i \in DOMAIN args : parseTrait(args[i]) = <<fld, EQ>> }

\* What the claim says of the override token args[i] of sequence fld, in the
\* run with oracle o: the sequence is the value of the token followed by what
\* the tokens after it add, and the token left the other two sequences alone.
OverrideHolds(i, fld, o) ==
    LET v      == SplitN2(args[i])[2]
        before == Run(SubSeq(args, 1, i - 1), o)
        at     == Run(SubSeq(args, 1, i), o)
        added  == apply([at EXCEPT !.gb[fld] = <<>>],
                        SubSeq(args, i + 1, Len(args)), o).gb[fld]
    IN  /\ gb[fld] = << v >> \o added
        /\ \A other \in OverrideFields \ { fld } : at.gb[other] = before.gb[other]

-----------------------------------------------------------------------------
(* C6 *)

\* the base names of the tokens main checked that are not registered
Unregistered ==
    { n \in { parseTrait(args[i]) : i \in DOMAIN args } : n \notin DOMAIN traits }

\* C6: check returns no error iff every base name is registered; otherwise
\* the one error names every unregistered base name of the list, each once
\* and no other name; foo, bar, release reports exactly foo and bar.
C6_CheckReportsAllInvalid ==
    args # <<>> =>
       /\ checkErr.nil <=> Unregistered = {}
       /\ ~checkErr.nil =>
             /\ { checkErr.invalid[k] : k \in DOMAIN checkErr.invalid } = Unregistered
             /\ Len(checkErr.invalid) = Cardinality(Unregistered)
             /\ checkErr.text =
                   S(IF Len(checkErr.invalid) = 1 THEN "Invalid trait: "
                                                   ELSE "Invalid traits: ")
                   \o Join(checkErr.invalid, S(", "))
             /\ Len(stderr) = 1
       /\ args = << S("foo"), S("bar"), S("release") >> =>
             /\ ~checkErr.nil
             /\ { checkErr.invalid[k] : k \in DOMAIN checkErr.invalid }
                   = { S("foo"), S("bar") }

\* C6 witness: check has reported foo and bar for foo, bar, release
C6_Witness ==
    /\ pc = "exit"
    /\ args = << S("foo"), S("bar"), S("release") >>
    /\ checkErr.invalid = << S("foo"), S("bar") >>

-----------------------------------------------------------------------------
(* C7 *)

\* C7: when check has reported an invalid token, no callback ever runs, the
\* gobu struct, the applied map and the process environment stay as
\* constructed, the build tool and createPackage are never invoked, and the
\* process has ended with a non-zero status.
C7_InvalidTokenStopsTheRun ==
    ~checkErr.nil =>
       /\ gb = NewGobu(gb.version)
       /\ applied = {}
       /\ calls = <<>>
       /\ osenv = <<>>
       /\ c = <<>>
       /\ runs = <<>>
       /\ pkgs = <<>>
       /\ pc = "exit"
       /\ exitCode \notin { "running", "0" }

\* C7 witness: a run with valid tokens before an invalid one has ended
C7_Witness ==
    /\ ~checkErr.nil
    /\ pc = "exit"
    /\ Len(args) > 2
    /\ args[1] = S("package")
    /\ args[2] = S("nocgo")
    /\ parseTrait(args[3]) \notin DOMAIN traits

-----------------------------------------------------------------------------
(* C8 *)

\* C8: createPackage is invoked at most once, only after the one run of the
\* build tool succeeded and only if the package trait was applied; a failed
\* build ends the process with a non-zero status and no package; with
\* -dryrun neither the build tool nor createPackage is invoked.
C8_PackageOnlyAfterBuild ==
    /\ Len(pkgs) <= 1
    /\ Len(runs) <= 1
    /\ pkgs # <<>> =>
          /\ Len(runs) = 1
          /\ runs[1].ok
          /\ S("package") \in applied
          /\ gb.dopackage
    /\ (runs # <<>> /\ ~runs[1].ok) =>
          /\ pkgs = <<>>
          /\ pc = "exit"
          /\ exitCode \notin { "running", "0" }
    /\ opts.dryrun => (runs = <<>> /\ pkgs = <<>>)
    /\ (pc = "exit" /\ exitCode = "0" /\ ~opts.dryrun /\ c # <<>> /\ gb.dopackage) =>
          Len(pkgs) = 1

\* C8 witness: the build succeeded and the package was created
C8_Witness ==
    /\ pc = "exit"
    /\ exitCode = "0"
    /\ Len(runs) = 1
    /\ Len(pkgs) = 1
    /\ pkgs[1].err = "nil"

-----------------------------------------------------------------------------
(* C9 *)

\* C9: a second Getcmd() right after a first one returns the same command
\* and the same environment; in particular, calling it again on the struct
\* main holds after its call returns what main got.
C9_GetcmdTwiceTheSame ==
    /\ \E r \in { Getcmd(gb) } :
          /\ Getcmd(r.g).command = r.command
          /\ Getcmd(r.g).env = r.env
    /\ c # <<>> => (Getcmd(gb).command = c /\ Getcmd(gb).env = e)

\* C9 witness: main has called Getcmd for a struct with link flags and an
\* environment, with the default tool binary
C9_Witness ==
    /\ pc = "ran"
    /\ Len(c) >= 4
    /\ c[1] = S("go")
    /\ e # <<>>

-----------------------------------------------------------------------------
(* C10 *)

\* C10 as stated: Getcmd() leaves every field of the struct as it was.
C10_GetcmdChangesNoField ==
    Applied => Getcmd(gb).g = gb


-----------------------------------------------------------------------------
(* C11 *)

\* C11: a run without tokens works on the list [default].  When apply has
\* returned, the gobu struct, the applied map and the process environment are
\* the ones a fresh registry has after apply(default), the struct is the one
\* apply(version) gives, the applied set is {default, version}, and the
\* command and the environment main gets are the ones Getcmd renders for it.
C11_EmptyListIsDefault ==
    (argv = <<>> /\ args # <<>>) =>
       /\ args = << S("default") >>
       /\ Applied =>
             \E o \in Oracles :
                \E r \in { Run(<< S("default") >>, o) } :
                   /\ gb = r.gb
                   /\ applied = r.applied
                   /\ osenv = r.osenv
                   /\ gb = Run(<< S("version") >>, o).gb
                   /\ appliedTraits(applied) = { S("default"), S("version") }
       /\ c # <<>> =>
             \E o \in Oracles :
                \E r \in { Getcmd(Run(<< S("default") >>, o).gb) } :
                   c = r.command /\ e = r.env /\ gb = r.g

\* C11 witness: the run without tokens has built with the four -X pairs of
\* the version trait
C11_Witness ==
    /\ argv = <<>>
    /\ pc = "ran"
    /\ Len(c) = 4
    /\ c[3] = S("-ldflags")
    /\ applied = { S("default"), S("version") }


-----------------------------------------------------------------------------
(* C12 *)

\* the entries SetEnv appended, from the log of the callbacks in call order
RECURSIVE EnvOfCalls(_)
EnvOfCalls(log) ==
    IF log = <<>> THEN <<>>
    ELSE (CASE Head(log).name = S("nocgo")   -> << <<"CGO_ENABLED", EQ, "0">> >>
            [] Head(log).name = S("linux")   -> << <<"GOOS", EQ, "linux">> >>
            [] Head(log).name = S("windows") -> << <<"GOOS", EQ, "windows">> >>
            [] OTHER -> <<>>)
         \o EnvOfCalls(Tail(log))

\* the argument that carries a flag sequence: the option and the flags joined
\* by spaces, or nothing for an empty sequence
FlagsArgument(option, flags) ==
    IF Len(flags) = 0 THEN <<>> ELSE << S(option), Join(flags, S(" ")) >>

\* C12: for the struct of every reachable state, Getcmd renders the tool
\* binary (go when no go= token set one), the subcommand (install when the
\* install trait was applied, build otherwise), the build flags in append
\* order, the link flags argument iff there are link flags and the compile
\* flags argument iff there are compile flags; the environment vector holds
\* the entries of the SetEnv calls in call order.  main gets these vectors,
\* and shrink, static, nocgo gives -s -w -extldflags "-static" and
\* CGO_ENABLED=0.
C12_RenderedCommand ==
    /\ \E r \in { Getcmd(gb) } :
          /\ r.command =
                << IF <<"go", EQ>> \in applied /\ gb.binary # <<>>
                   THEN SplitN2(args[Min(GoIndexes)])[2] ELSE S("go"),
                   IF S("install") \in applied THEN S("install") ELSE S("build") >>
                \o gb.buildflags
                \o FlagsArgument("-ldflags", gb.ldflags)
                \o FlagsArgument("-gcflags", gb.gcflags)
          /\ r.env = EnvOfCalls(calls)
          /\ c # <<>> => (c = r.command /\ e = r.env)
    /\ (c # <<>> /\ args = << S("shrink"), S("static"), S("nocgo") >>) =>
          /\ c = << S("go"), S("build"), S("-ldflags"),
                    << "-s", " ", "-w", " ", "-extldflags", " ", "\"-static\"" >> >>
          /\ e = << <<"CGO_ENABLED", EQ, "0">> >>

\* C12 witness: main has the command go install -a -ldflags "-H windowsgui"
\* and the environment GOOS=windows
C12_Witness ==
    /\ pc = "run"
    /\ c = << S("go"), S("install"), S("-a"), S("-ldflags"),
              << "-H", " ", "windowsgui" >> >>
    /\ e = << <<"GOOS", EQ, "windows">> >>

-----------------------------------------------------------------------------
(* C13 *)

-----------------------------------------------------------------------------
(* C14 *)

IsPrefix(s, t) == Len(s) <= Len(t) /\ SubSeq(t, 1, Len(s)) = s

\* the name template of the struct with %n replaced by the default name
BinaryStem ==
    IF gb.name = <<>> THEN DirName
    ELSE [ i \in DOMAIN gb.name |->
             IF gb.name[i] = "%n" THEN DirName[1] ELSE gb.name[i] ]

\* the base name of the archive: <binary>-<version>-<os>-<arch>, or <binary>
\* when there is no version
ArchiveBase ==
    IF gb.version = <<>> THEN BinaryStem
    ELSE BinaryStem \o << "-" >> \o gb.version \o << "-" >> \o TargetOs(gb)
         \o << "-" >> \o runtimeGOARCH

\* the OS of the target by the OS traits applied
WindowsTarget ==
    /\ S("windows") \in applied
    /\ (S("linux") \in applied =>
          \E i, j \in DOMAIN calls :
             i < j /\ calls[i].name = S("linux") /\ calls[j].name = S("windows"))

\* C14: every package createPackage got to name is <base>.zip with the base
\* name above; the binary it asks for is the name with the suffix .exe
\* exactly when the target is windows; every entry is <base>/<file>.  For
\* v1.2.3, windows, amd64 and the default name tool the archive is
\* tool-v1.2.3-windows-amd64.zip and it holds tool-v1.2.3-windows-amd64/tool.exe.
C14_PackageNames ==
    \A k \in DOMAIN pkgs :
       pkgs[k].err # "abs" =>
          /\ pkgs[k].zipfile = ArchiveBase \o << ".zip" >>
          /\ pkgs[k].files[Len(pkgs[k].files)] =
                BinaryStem \o (IF WindowsTarget THEN << ".exe" >> ELSE <<>>)
          /\ \A i \in DOMAIN pkgs[k].entries :
                IsPrefix(ArchiveBase \o << "/" >>, pkgs[k].entries[i])
          /\ (gb.version = S("v1.2.3") /\ WindowsTarget /\ gb.name = <<>>) =>
                /\ pkgs[k].zipfile =
                      << "tool", "-", "v1.2.3", "-", "windows", "-", "amd64", ".zip" >>
                /\ pkgs[k].err = "nil" =>
                      \E i \in DOMAIN pkgs[k].entries :
                         pkgs[k].entries[i] =
                            << "tool", "-", "v1.2.3", "-", "windows", "-", "amd64",
                               "/", "tool", ".exe" >>

\* C14 witness: the package tool-v1.2.3-windows-amd64.zip was created with
\* the binary and three more files
C14_Witness ==
    /\ Len(pkgs) = 1
    /\ pkgs[1].err = "nil"
    /\ pkgs[1].zipfile = << "tool", "-", "v1.2.3", "-", "windows", "-", "amd64", ".zip" >>
    /\ Len(pkgs[1].entries) = 3
    /\ pkgs[1].entries[3] =
          << "tool", "-", "v1.2.3", "-", "windows", "-", "amd64", "/", "tool", ".exe" >>


-----------------------------------------------------------------------------
(* C15 *)

\* fld is wholly replaced by the value of its override: the step applies the
\* token fld=<v> and leaves exactly [v]
ReplacedByOverride(fld) ==
    /\ pc = "apply"
    /\ idx <= Len(args)
    /\ parseTrait(args[idx]) = <<fld, EQ>>
    /\ gb'[fld] = << SplitN2(args[idx])[2] >>

\* C15: in every step of a run, each of ldflags, buildflags and gcflags
\* keeps its content as a prefix of the new content, or the step applies the
\* override token of that sequence and leaves exactly its value; the
\* environment vector keeps its content as a prefix.
C15_GrowOrWhollyReplaced ==
    [][ /\ \A fld \in OverrideFields :
              IsPrefix(gb[fld], gb'[fld]) \/ ReplacedByOverride(fld)
        /\ IsPrefix(gb.environ, gb'.environ) ]_vars

\* C15 witness: shrink, ldflags=, static was applied: the override replaced
\* the flags of shrink by its empty value and static added to that, and
\* nothing else changed
C15_Witness ==
    /\ Applied
    /\ args = << S("shrink"), P("ldflags", <<>>), S("static") >>
    /\ gb.ldflags = << <<>>, S("-extldflags"), S("\"-static\"") >>
    /\ gb.buildflags = <<>>
    /\ gb.environ = <<>>


-----------------------------------------------------------------------------
(* C16 *)

\* the base names of the callbacks that ran
Ran == { calls[i].name : i \in DOMAIN calls }

-----------------------------------------------------------------------------
(* C17 *)

\* the callback logged at j was invoked by the apply call inside the callback
\* logged at i, directly or through another composite
Inside(i, j) ==
    /\ i < j
    /\ \A k \in (i + 1)..j : calls[k].depth > calls[i].depth

\* C17 as stated: composite expansion nests to a bounded depth, and while
\* the callback of a composite runs, an apply call for that composite (from
\* one of its constituents) is skipped: at the moment a constituent's
\* callback starts, the base name of every composite it runs inside is in
\* the applied map, which is what the skip of apply tests.
C17_CompositeIsMarkedWhileItRuns ==
    /\ \A i \in DOMAIN calls : calls[i].depth <= 2
    /\ Len(calls) <= Cardinality(DOMAIN traits)
    /\ \A i, j \in DOMAIN calls :
          Inside(i, j) => calls[i].name \in calls[j].marked


-----------------------------------------------------------------------------
(* C18 *)

\* the key of an entry key=value
KeyOf(entry) == SubSeq(entry, 1, FirstIndex(entry, EQ) - 1)

\* keys and a value to call SetEnv with: keys os.Setenv refuses (the empty
\* key, a key that holds "=") and a key it accepts
SetEnvKeys == { <<>>, << "A", EQ, "B" >>, S("GOFLAGS"), S("GOOS") }

\* C18: the build tool is run with the command main got, and for every key
\* of an entry of the environment vector main got, the environment of the
\* build tool holds the value of the last entry of that key.  In every
\* state, a SetEnv call appends its entry and returns normally whether or
\* not os.Setenv fails; when it fails, it writes a line to os.Stderr and the
\* environment of the process stays as it is.
C18_BuildToolGetsTheEnvironment ==
    /\ \A k \in DOMAIN runs :
          /\ runs[k].args = c
          /\ \A i \in DOMAIN e :
                /\ KeyOf(e[i]) \in DOMAIN runs[k].env
                /\ runs[k].env[KeyOf(e[i])] = LastEnv(e, KeyOf(e[i]), <<>>)
    /\ \A key \in SetEnvKeys :
          \E r \in { SetEnv(St, key, S("x")) } :
             /\ r.gb.environ = Append(gb.environ, key \o << EQ, "x" >>)
             /\ ~r.panicked
             /\ IF key = <<>> \/ Contains(key, EQ)
                THEN /\ Len(r.stderr) = Len(stderr) + 1
                     /\ r.osenv = osenv
                ELSE /\ r.stderr = stderr
                     /\ key \in DOMAIN r.osenv
                     /\ r.osenv[key] = S("x")

\* C18 witness: the build tool ran for linux, windowsgui: the vector holds
\* GOOS=linux and GOOS=windows, the tool got GOOS=windows
C18_Witness ==
    /\ Len(runs) = 1
    /\ e = << <<"GOOS", EQ, "linux">>, <<"GOOS", EQ, "windows">> >>
    /\ runs[1].env[S("GOOS")] = S("windows")


-----------------------------------------------------------------------------
(* C19 *)

\* C19 as stated: check, apply and Getcmd never end the program abruptly: a
\* failure inside a callback comes back to main as an error value, so the
\* process never ends by a panic (status 2), only by the os.Exit of main and
\* fault.
C19_NoAbruptTermination ==
    /\ exitCode # "2"
    /\ \A i \in DOMAIN stderr : stderr[i].msg # "panic"
    /\ (pc = "exit" /\ args # <<>> /\ checkErr.nil /\ ~opts.dryrun) => runs # <<>>


-----------------------------------------------------------------------------
(* C20 *)

\* the first token of the list with the base name n
FirstWith(n) == Min({ i \in DOMAIN args : parseTrait(args[i]) = n })

\* C20: a registered descriptor has the one-argument callback exactly when
\* its name holds "=", and the zero-argument callback otherwise.  For a list
\* check accepted, every base name is registered and a token of a
\* parameterized base name splits in two parts; every token apply has passed
\* is applied (it was skipped as applied, or its callback ran); a callback
\* that ran at the top level is the one of the first token of its base name,
\* and the argument of a parameterized one is the rest of that token: the
\* base name followed by the argument is the token.  No callback is missing:
\* the process never ends by a panic.
C20_CheckAndApplyAgree ==
    /\ \A n \in DOMAIN traits :
          /\ isFlagTrait(n) <=> traits[n].paramTrait # "nil"
          /\ ~isFlagTrait(n) <=> traits[n].trait # "nil"
    /\ (args # <<>> /\ checkErr.nil) =>
          /\ \A i \in DOMAIN args :
                /\ parseTrait(args[i]) \in DOMAIN traits
                /\ isFlagTrait(parseTrait(args[i])) => Len(SplitN2(args[i])) = 2
                /\ (pc # "constructed" /\ i < idx) => parseTrait(args[i]) \in applied
          /\ \A k \in DOMAIN calls :
                calls[k].depth = 1 =>
                   /\ \E i \in DOMAIN args : parseTrait(args[i]) = calls[k].name
                   /\ IF isFlagTrait(calls[k].name)
                      THEN /\ Len(calls[k].arg) = 1
                           /\ calls[k].name \o calls[k].arg[1]
                                 = args[FirstWith(calls[k].name)]
                      ELSE /\ calls[k].arg = <<>>
                           /\ calls[k].name = args[FirstWith(calls[k].name)]
          /\ exitCode # "2"
    /\ ~checkErr.nil => calls = <<>>

\* C20 witness: ldflags=-X main.v=1 was applied with the argument
\* -X main.v=1, after go= with the empty argument
C20_Witness ==
    /\ Applied
    /\ Len(calls) = 2
    /\ calls[1] = [ name |-> <<"go", EQ>>, arg |-> << <<>> >>, marked |-> {},
                    depth |-> 1 ]
    /\ calls[2].arg = << << "-X main.v", EQ, "1" >> >>
    /\ gb.ldflags = << << "-X main.v", EQ, "1" >> >>


-----------------------------------------------------------------------------
(* C21 *)

\* the name getBinaryName resolves for the struct main holds
ResolvedName == getTransformedBinaryName(gb, DirName)

\* C21 as stated: when the name template is set after apply, the command
\* main renders holds the build flag -o immediately followed by the resolved
\* binary name, and that name is the one of the binary createPackage
\* bundles.
C21_OutputNameIsPackagedName ==
    (c # <<>> /\ gb.name # <<>>) =>
       /\ \E i \in 1..(Len(c) - 1) : c[i] = S("-o") /\ c[i + 1] = ResolvedName
       /\ \A k \in DOMAIN pkgs :
             pkgs[k].err # "abs" =>
                pkgs[k].files[Len(pkgs[k].files)] = ResolvedName


=============================================================================
